---- MODULE Spec2Model ----
(***************************************************************************)
(* Hypo: a toy ISA with an assembler (package asm) and a virtual machine   *)
(* (package cpu).  The model follows the Go sources operation by           *)
(* operation.  32-bit unsigned values are kept as pairs <<hi, lo>> of      *)
(* 16-bit halves so that wrap-around at 2^32 is computed exactly.          *)
(***************************************************************************)
EXTENDS Integers, Sequences, FiniteSets, TLC

VARIABLES
    cpu,    \* the cpu.Cpu value of cmd/hypo: reg, mem, pc, flags, err, buf
    run,    \* position of cmd/hypo's main: "start" (before cpu.New), "loop",
            \* "halted", "fatal", "panic", "exit1" (cpu.New failed)
    ret,    \* the error returned by cpu.New or by the last Step ("nil" when
            \* none)
    steps,  \* number of Steps main has made (bounds the exploration only)
    last,   \* history: where the last Step fetched, and the opcode it fetched
    link,   \* history: the return offset of the last call, while no later
            \* instruction had register 3 as its destination ("none" otherwise)
    reader, \* the asm.Reader of Gen: sym, nsym
    writer, \* the asm.Writer of Gen: buf, pc, lab, addr, and f, the bytes
            \* written to the sink
    gen,    \* Gen: where it stands (at), errc, the lines written to the error
            \* sink e, the operand kinds still to read (params), the error
            \* returned (err) and the count in it (sum); history: the
            \* instruction being assembled (cur), its operand symbols (ops),
            \* the buffer length and errc when it began (start, errc0), the
            \* label references read in Address slots (refs), the offset
            \* of each label definition (defs) and of each instruction (offs)
    hypoc,  \* cmd/hypoc's main: its exit code and what became of the output
    lex     \* the lex loop of Gen: the source bytes (src), how many of them
            \* the bufio.Reader has given out (pos), the package variable lc,
            \* the symbols appended so far (sym); history: lc when Gen was
            \* called (lc0)

vmvars == <<cpu, run, ret, steps, last, link>>

asmvars == <<reader, writer, gen, hypoc, lex>>

vars == <<cpu, run, ret, steps, last, link, reader, writer, gen, hypoc, lex>>

----------------------------------------------------------------------------
\* With(x, Op) names the value x inside Op: a local variable of the Go code
With(x, Op(_)) == Op(x)

(* uint32 arithmetic *)

Half == 256 * 256

U32(hi, lo) == <<hi, lo>>

Small(n) == <<0, n>>

AddU32(a, b) ==
    LET s == a[2] + b[2]
    IN  <<(a[1] + b[1] + (s \div Half)) % Half, s % Half>>

SubU32(a, b) ==
    LET d == a[2] - b[2]
        borrow == IF d < 0 THEN 1 ELSE 0
    IN  <<(a[1] - b[1] - borrow + Half) % Half, (d + Half) % Half>>

LtU32(a, b) == a[1] < b[1] \/ (a[1] = b[1] /\ a[2] < b[2])

\* little-endian decoding of four bytes, and the four bytes of a value
LeU32(b0, b1, b2, b3) == <<b3 * 256 + b2, b1 * 256 + b0>>

LeBytes(v) == <<v[2] % 256, v[2] \div 256, v[1] % 256, v[1] \div 256>>

----------------------------------------------------------------------------
(* package asm: the opcodes and the header shared by both tools *)

OpNop  == 0
OpLd   == 1
OpLr   == 2
OpSt   == 3
OpAdd  == 4
OpSub  == 5
OpAddi == 6
OpSubi == 7
OpP    == 8
OpBeq  == 9
OpBne  == 10
OpBgt  == 11
OpBlt  == 12
OpJ    == 13
OpJr   == 14
OpCall == 15
OpExit == 16

Hdr == <<72, 89, 80, 0>>

----------------------------------------------------------------------------
(* package cpu *)

NumRegs == 8
MemSize == 8192

Nil == "nil"

\* mem holds only the non-zero bytes; every other cell of the array is 0
MemAt(m, a) == IF a \in DOMAIN m THEN m[a] ELSE 0

MemPut(m, a, b) ==
    IF b = 0
    THEN [x \in DOMAIN m \ {a} |-> m[x]]
    ELSE [x \in DOMAIN m \cup {a} |-> IF x = a THEN b ELSE m[x]]

\* bytes.Reader: number of unread bytes at position i (a position past the
\* end, as Seek may leave it, has none)
Avail(buf) ==
    IF buf.i[1] = 0 /\ buf.i[2] < Len(buf.s) THEN Len(buf.s) - buf.i[2] ELSE 0

Min(a, b) == IF a < b THEN a ELSE b

\* io.ReadFull on the bytes.Reader: consumes min(n, unread) bytes and fails
\* when fewer than n were there.  Result: the reader, the bytes, ok.
ReadFull(buf, n) ==
    LET k == Min(n, Avail(buf))
    IN  [buf |-> [buf EXCEPT !.i = AddU32(buf.i, Small(k))],
         bs  |-> IF k = n THEN SubSeq(buf.s, buf.i[2] + 1, buf.i[2] + n) ELSE <<>>,
         ok  |-> k = n]

\* New: the Cpu after construction and the error New returns.  bytes.Reader.Read
\* into the 4-byte hdr fails only at end of input; a short read leaves the rest
\* of hdr zero.
New(object) ==
    LET n   == Min(Len(Hdr), Len(object))
        hdr == [k \in 1..Len(Hdr) |-> IF k <= n THEN object[k] ELSE 0]
        c   == [reg      |-> [r \in 0..(NumRegs - 1) |-> Small(0)],
                mem      |-> <<>>,
                pc       |-> Small(0),
                flags    |-> 0,
                err      |-> Nil,
                buf      |-> [s |-> object, i |-> Small(n)],
                panicked |-> FALSE]
    IN  [c   |-> c,
         err |-> IF Len(object) = 0 THEN "could not read header"
                 ELSE IF hdr # Hdr THEN "bad header"
                 ELSE Nil]

\* c.read(ins) for an ins of n bytes: the bytes read, c.err latched on failure
read(c, n) ==
    With(ReadFull(c.buf, n), LAMBDA r :
      [c  |-> [c EXCEPT !.buf = r.buf,
                        !.err = IF r.ok THEN c.err ELSE "bad read"],
       bs |-> r.bs])

SetFlag(f) == IF f % 2 = 1 THEN f ELSE f + 1

checkReg(c, r) ==
    IF r > NumRegs
    THEN [c EXCEPT !.err = "invalid register", !.flags = SetFlag(c.flags)]
    ELSE c

\* readReg: indexing reg past its end is a run-time panic
readReg(c, r) ==
    IF c.panicked THEN [c |-> c, v |-> Small(0)]
    ELSE With(checkReg(c, r), LAMBDA k :
           IF k.err # Nil THEN [c |-> k, v |-> Small(0)]
           ELSE IF r < NumRegs THEN [c |-> k, v |-> k.reg[r]]
           ELSE [c |-> [k EXCEPT !.panicked = TRUE], v |-> Small(0)])

writeReg(c, r, i) ==
    IF c.panicked THEN c
    ELSE With(checkReg(c, r), LAMBDA k :
           IF k.err # Nil THEN k
           ELSE IF r < NumRegs THEN [k EXCEPT !.reg[r] = i]
           ELSE [k EXCEPT !.panicked = TRUE])

\* readImm: c.mem[addr:4] panics unless addr <= 4, and i[3] panics unless the
\* slice has 4 elements, that is unless addr = 0
readImm(c, addr) ==
    IF c.panicked THEN [c |-> c, v |-> Small(0), err |-> Nil]
    ELSE IF LtU32(Small(MemSize), addr)
    THEN [c |-> c, v |-> Small(0), err |-> "illegal read"]
    ELSE IF addr # Small(0)
    THEN [c |-> [c EXCEPT !.panicked = TRUE], v |-> Small(0), err |-> Nil]
    ELSE [c   |-> c,
          v   |-> LeU32(MemAt(c.mem, 0), MemAt(c.mem, 1),
                        MemAt(c.mem, 2), MemAt(c.mem, 3)),
          err |-> Nil]

\* the k-th byte store of writeImm (k = 0..3): c.mem[addr+k] = b panics when
\* the index is past the array
PutByte(c, addr, k, b) ==
    IF c.panicked THEN c
    ELSE IF addr[2] + k >= MemSize THEN [c EXCEPT !.panicked = TRUE]
    ELSE [c EXCEPT !.mem = MemPut(c.mem, addr[2] + k, b)]

writeImm(c, addr, imm) ==
    IF c.panicked THEN [c |-> c, err |-> Nil]
    ELSE IF LtU32(Small(MemSize), addr)
    THEN [c |-> c, err |-> "illegal write"]
    ELSE LET b == LeBytes(imm)
         IN  [c   |-> PutByte(PutByte(PutByte(PutByte(c, addr, 0, b[1]),
                                              addr, 1, b[2]),
                                      addr, 2, b[3]),
                              addr, 3, b[4]),
              err |-> Nil]

\* jump: Seek(int64(pc + uint32(len(Hdr))), SeekStart); the sum is a uint32 and
\* wraps; the offset is never negative, so the Seek never fails
jump(c, target) ==
    IF c.panicked THEN c
    ELSE [c EXCEPT !.buf.i = AddU32(target, Small(Len(Hdr))), !.pc = target]

----------------------------------------------------------------------------------------------------------------------------------------
(* the handlers of the ops map: each returns the Cpu and the operand count *)

Ret(c, n) == [c |-> c, n |-> n]

\* c.err = err, as ld and st assign it (not reached once the handler panicked)
SetErr(c, err) == IF c.panicked THEN c ELSE [c EXCEPT !.err = err]

opsNop(c) == Ret(c, 0)

opsLd(c) ==
    With(read(c, 2), LAMBDA rd :
      IF rd.c.err # Nil THEN Ret(rd.c, 0)
      ELSE With(readReg(rd.c, rd.bs[2]), LAMBDA r2 :
           With(readImm(r2.c, r2.v), LAMBDA i :
             IF i.err # Nil
             THEN Ret(writeReg(SetErr(i.c, i.err), rd.bs[1], i.v), 2)
             ELSE Ret(SetErr(i.c, i.err), 2))))

\* opsLr returning one operand byte too many
opsLrCountsSix(c) ==
    With(read(c, 5), LAMBDA rd :
      IF rd.c.err # Nil THEN Ret(rd.c, 0)
      ELSE Ret(writeReg(rd.c, rd.bs[5],
                        LeU32(rd.bs[1], rd.bs[2], rd.bs[3], rd.bs[4])), 6))

opsLr(c) ==
    With(read(c, 5), LAMBDA rd :
      IF rd.c.err # Nil THEN Ret(rd.c, 0)
      ELSE Ret(writeReg(rd.c, rd.bs[5],
                        LeU32(rd.bs[1], rd.bs[2], rd.bs[3], rd.bs[4])), 5))

opsSt(c) ==
    With(read(c, 2), LAMBDA rd :
      IF rd.c.err # Nil THEN Ret(rd.c, 0)
      ELSE With(readReg(rd.c, rd.bs[1]), LAMBDA r1 :
           With(readReg(r1.c, rd.bs[2]), LAMBDA r2 :
           With(writeImm(r2.c, r1.v, r2.v), LAMBDA w :
             Ret(SetErr(w.c, w.err), 2)))))

opsAdd(c) ==
    With(read(c, 3), LAMBDA rd :
      IF rd.c.err # Nil THEN Ret(rd.c, 0)
      ELSE With(readReg(rd.c, rd.bs[1]), LAMBDA r1 :
           With(readReg(r1.c, rd.bs[2]), LAMBDA r2 :
             Ret(writeReg(r2.c, rd.bs[3], AddU32(r1.v, r2.v)), 3))))

opsSub(c) ==
    With(read(c, 3), LAMBDA rd :
      IF rd.c.err # Nil THEN Ret(rd.c, 0)
      ELSE With(readReg(rd.c, rd.bs[1]), LAMBDA r1 :
           With(readReg(r1.c, rd.bs[2]), LAMBDA r2 :
             Ret(writeReg(r2.c, rd.bs[3], SubU32(r1.v, r2.v)), 3))))

\* opsAddi returning one operand byte too few
opsAddiCountsFive(c) ==
    With(read(c, 6), LAMBDA rd :
      IF rd.c.err # Nil THEN Ret(rd.c, 0)
      ELSE With(readReg(rd.c, rd.bs[1]), LAMBDA r1 :
             Ret(writeReg(r1.c, rd.bs[6],
                          AddU32(r1.v, LeU32(rd.bs[2], rd.bs[3], rd.bs[4], rd.bs[5]))),
                 5)))

opsAddi(c) ==
    With(read(c, 6), LAMBDA rd :
      IF rd.c.err # Nil THEN Ret(rd.c, 0)
      ELSE With(readReg(rd.c, rd.bs[1]), LAMBDA r1 :
             Ret(writeReg(r1.c, rd.bs[6],
                          AddU32(r1.v, LeU32(rd.bs[2], rd.bs[3], rd.bs[4], rd.bs[5]))),
                 6)))

opsSubi(c) ==
    With(read(c, 6), LAMBDA rd :
      IF rd.c.err # Nil THEN Ret(rd.c, 0)
      ELSE With(readReg(rd.c, rd.bs[1]), LAMBDA r1 :
             Ret(writeReg(r1.c, rd.bs[6],
                          SubU32(r1.v, LeU32(rd.bs[2], rd.bs[3], rd.bs[4], rd.bs[5]))),
                 6)))

\* p indexes c.reg without checkReg; the printed codepoint is not kept
opsP(c) ==
    With(read(c, 1), LAMBDA rd :
      IF rd.c.err # Nil THEN Ret(rd.c, 0)
      ELSE IF rd.bs[1] < NumRegs THEN Ret(rd.c, 1)
      ELSE Ret([rd.c EXCEPT !.panicked = TRUE], 1))

\* the comparisons of beq, bne, bgt and blt
Cond(op, a, b) ==
    CASE op = OpBeq -> a = b
      [] op = OpBne -> a # b
      [] op = OpBgt -> LtU32(b, a)
      [] op = OpBlt -> LtU32(a, b)

\* the four conditional branches, which differ only in the comparison
opsBranch(op, c) ==
    With(read(c, 6), LAMBDA rd :
      IF rd.c.err # Nil THEN Ret(rd.c, 0)
      ELSE With(readReg(rd.c, rd.bs[1]), LAMBDA r1 :
           With(readReg(r1.c, rd.bs[2]), LAMBDA r2 :
             IF r2.c.panicked THEN Ret(r2.c, 0)
             ELSE IF Cond(op, r1.v, r2.v)
             THEN Ret(jump(r2.c, LeU32(rd.bs[3], rd.bs[4], rd.bs[5], rd.bs[6])), 0)
             ELSE Ret(r2.c, 6))))

opsJ(c) ==
    With(read(c, 4), LAMBDA rd :
      IF rd.c.err # Nil THEN Ret(rd.c, 0)
      ELSE Ret(jump(rd.c, LeU32(rd.bs[1], rd.bs[2], rd.bs[3], rd.bs[4])), 0))

opsJr(c) ==
    With(read(c, 1), LAMBDA rd :
      IF rd.c.err # Nil THEN Ret(rd.c, 0)
      ELSE With(readReg(rd.c, rd.bs[1]), LAMBDA r : Ret(jump(r.c, r.v), 0)))

\* opsCall taking pc + 5 for the return address
opsCallOffByOne(c) ==
    With(read(c, 4), LAMBDA rd :
      IF rd.c.err # Nil THEN Ret(rd.c, 0)
      ELSE Ret(jump(writeReg(rd.c, 3, AddU32(rd.c.pc, Small(5))),
                    LeU32(rd.bs[1], rd.bs[2], rd.bs[3], rd.bs[4])), 0))

opsCall(c) ==
    With(read(c, 4), LAMBDA rd :
      IF rd.c.err # Nil THEN Ret(rd.c, 0)
      ELSE Ret(jump(writeReg(rd.c, 3, AddU32(rd.c.pc, Small(4))),
                    LeU32(rd.bs[1], rd.bs[2], rd.bs[3], rd.bs[4])), 0))

opsExit(c) == Ret([c EXCEPT !.flags = SetFlag(c.flags)], 0)

ops(op, c) ==
    CASE op = OpNop  -> opsNop(c)
      [] op = OpLd   -> opsLd(c)
      [] op = OpLr   -> opsLr(c)
      [] op = OpSt   -> opsSt(c)
      [] op = OpAdd  -> opsAdd(c)
      [] op = OpSub  -> opsSub(c)
      [] op = OpAddi -> opsAddi(c)
      [] op = OpSubi -> opsSubi(c)
      [] op = OpP    -> opsP(c)
      [] op \in {OpBeq, OpBne, OpBgt, OpBlt} -> opsBranch(op, c)
      [] op = OpJ    -> opsJ(c)
      [] op = OpJr   -> opsJr(c)
      [] op = OpCall -> opsCall(c)
      [] op = OpExit -> opsExit(c)

State(c) == c.flags # 1

\* Step: the Cpu afterwards and the error returned
Step(c) ==
    With(read(c, 1), LAMBDA rd :
      IF rd.c.err # Nil THEN [c |-> rd.c, err |-> rd.c.err]
      ELSE IF rd.bs[1] \notin OpNop..OpExit
      THEN [c |-> rd.c, err |-> "invalid opcode"]
      ELSE With(ops(rd.bs[1], [rd.c EXCEPT !.pc = AddU32(rd.c.pc, Small(1))]),
                LAMBDA h :
             IF h.c.panicked THEN [c |-> h.c, err |-> Nil]
             ELSE [c   |-> [h.c EXCEPT !.pc = AddU32(h.c.pc, Small(h.n))],
                   err |-> h.c.err]))

----------------------------------------------------------------------------
(* what the next Step will decode, read off the object at the cursor *)

\* the opcode byte at the cursor, -1 at the end of the object
NextOp(c) == IF Avail(c.buf) > 0 THEN c.buf.s[c.buf.i[2] + 1] ELSE -1

\* the k-th operand byte after the opcode at the cursor
Operand(c, k) == c.buf.s[c.buf.i[2] + 1 + k]

\* operand bytes each handler reads
OperandLen(op) ==
    CASE op \in {OpNop, OpExit} -> 0
      [] op \in {OpP, OpJr} -> 1
      [] op \in {OpLd, OpSt} -> 2
      [] op \in {OpAdd, OpSub} -> 3
      [] op \in {OpJ, OpCall} -> 4
      [] op = OpLr -> 5
      [] op \in {OpAddi, OpSubi, OpBeq, OpBne, OpBgt, OpBlt} -> 6

\* the next Step fetches a known opcode and all of its operand bytes
Decoded(c) ==
    /\ NextOp(c) \in OpNop..OpExit
    /\ Avail(c.buf) >= 1 + OperandLen(NextOp(c))

\* positions (after the opcode) of the register operands each handler uses
RegSlots(op) ==
    CASE op \in {OpLd, OpSt, OpBeq, OpBne, OpBgt, OpBlt} -> {1, 2}
      [] op \in {OpAdd, OpSub} -> {1, 2, 3}
      [] op \in {OpAddi, OpSubi} -> {1, 6}
      [] op = OpLr -> {5}
      [] op \in {OpP, OpJr} -> {1}
      [] OTHER -> {}

RegsUsed(c) == {Operand(c, k) : k \in RegSlots(NextOp(c))}

\* position of the destination register operand; call writes register 3
DestSlot(op) ==
    CASE op = OpLd -> 1
      [] op = OpLr -> 5
      [] op \in {OpAdd, OpSub} -> 3
      [] op \in {OpAddi, OpSubi} -> 6
      [] OTHER -> 0

DestReg(c) ==
    IF NextOp(c) = OpCall THEN 3
    ELSE IF DestSlot(NextOp(c)) = 0 THEN -1
    ELSE Operand(c, DestSlot(NextOp(c)))

\* the code offset the cursor stands at (cursor - len(Hdr), 32-bit)
Loc(c) == SubU32(c.buf.i, Small(Len(Hdr)))

MaxSteps == 8

(* cmd/hypo: for c.State() { if err := c.Step(); err != nil { ...; break } } *)

\* what main does with the outcome s of c.Step()
AfterStep(s) ==
    /\ cpu' = s.c
    /\ ret' = s.err
    /\ run' = IF s.c.panicked THEN "panic"
              ELSE IF s.err # Nil THEN "fatal"
              ELSE "loop"

MainStep ==
    /\ run = "loop"
    /\ State(cpu)
    /\ steps < MaxSteps
    /\ steps' = steps + 1
    /\ last' = [at |-> Loc(cpu), op |-> NextOp(cpu)]
    /\ link' = IF Decoded(cpu) /\ NextOp(cpu) = OpCall
               THEN AddU32(Loc(cpu), Small(5))
               ELSE IF Decoded(cpu) /\ DestReg(cpu) = 3 THEN "none"
               ELSE link
    /\ AfterStep(Step(cpu))
    /\ UNCHANGED asmvars

\* main calls cpu.New(buf) on the bytes of the file; before the call the
\* model keeps them in cpu.buf.s
MainLoad ==
    /\ run = "start"
    /\ With(New(cpu.buf.s), LAMBDA n :
         /\ cpu' = n.c
         /\ ret' = n.err
         /\ run' = IF n.err = Nil THEN "loop" ELSE "exit1")
    /\ UNCHANGED <<steps, last, link>>
    /\ UNCHANGED asmvars

MainExit ==
    /\ run = "loop"
    /\ ~State(cpu)
    /\ run' = "halted"
    /\ UNCHANGED <<cpu, ret, steps, last, link>>
    /\ UNCHANGED asmvars

----------------------------------------------------------------------------------------------------------------------------------------
(* package asm: symbols, the instruction table, Reader and Writer *)

Id    == 0
Label == 1
Reg   == 2
Addr  == 3
Eof   == 4

ErrThreshold == 8

\* a Symbol; Val is the sequence of its characters
Sym(t, v, l) == [Type |-> t, Val |-> v, Line |-> l]

\* Symbol{}, the zero value
NoSymbol == Sym(0, <<>>, 0)

Instruction(op, ps) == [Op |-> op, Params |-> ps]

inst ==
    (<<"n", "o", "p">>      :> Instruction(OpNop, <<>>)) @@
    (<<"l", "d">>           :> Instruction(OpLd, <<Reg, Reg>>)) @@
    (<<"l", "r">>           :> Instruction(OpLr, <<Addr, Reg>>)) @@
    (<<"s", "t">>           :> Instruction(OpSt, <<Reg, Reg>>)) @@
    (<<"a", "d", "d">>      :> Instruction(OpAdd, <<Reg, Reg, Reg>>)) @@
    (<<"s", "u", "b">>      :> Instruction(OpSub, <<Reg, Reg, Reg>>)) @@
    (<<"a", "d", "d", "i">> :> Instruction(OpAddi, <<Reg, Addr, Reg>>)) @@
    (<<"s", "u", "b", "i">> :> Instruction(OpSubi, <<Reg, Addr, Reg>>)) @@
    (<<"p">>                :> Instruction(OpP, <<Reg>>)) @@
    (<<"b", "e", "q">>      :> Instruction(OpBeq, <<Reg, Reg, Addr>>)) @@
    (<<"b", "n", "e">>      :> Instruction(OpBne, <<Reg, Reg, Addr>>)) @@
    (<<"b", "g", "t">>      :> Instruction(OpBgt, <<Reg, Reg, Addr>>)) @@
    (<<"b", "l", "t">>      :> Instruction(OpBlt, <<Reg, Reg, Addr>>)) @@
    (<<"j">>                :> Instruction(OpJ, <<Addr>>)) @@
    (<<"j", "r">>           :> Instruction(OpJr, <<Reg>>)) @@
    (<<"c", "a", "l", "l">> :> Instruction(OpCall, <<Addr>>)) @@
    (<<"e", "x", "i", "t">> :> Instruction(OpExit, <<>>))

NewReader(s) == [sym |-> s, nsym |-> 0]

\* NewWriter; f holds the bytes written to the sink so far
NewWriter == [buf |-> <<>>, pc |-> 0, lab |-> <<>>, addr |-> <<>>, f |-> <<>>]

\* Reader.Read: the reader, the symbol and the error
ReaderRead(r) ==
    IF r.nsym = Len(r.sym)
    THEN [r |-> r, sym |-> NoSymbol, err |-> "bad argument count"]
    ELSE [r |-> [r EXCEPT !.nsym = r.nsym + 1], sym |-> r.sym[r.nsym + 1], err |-> Nil]

Expect(r, t) ==
    With(ReaderRead(r), LAMBDA x :
      IF x.err # Nil THEN x
      ELSE IF t = Id
      THEN IF x.sym.Type # t /\ x.sym.Type # Label
           THEN [x EXCEPT !.err = "expected identifier"]
           ELSE x
      ELSE IF x.sym.Type # t /\ x.sym.Type # Id
           THEN [x EXCEPT !.err = IF t = Addr THEN "expected immediate"
                                  ELSE "expected register"]
           ELSE x)

\* value of a digit character, -1 for any other character
DigitOf(ch) ==
    CASE ch = "0" -> 0  [] ch = "1" -> 1  [] ch = "2" -> 2  [] ch = "3" -> 3
      [] ch = "4" -> 4  [] ch = "5" -> 5  [] ch = "6" -> 6  [] ch = "7" -> 7
      [] ch = "8" -> 8  [] ch = "9" -> 9
      [] ch \in {"a", "A"} -> 10  [] ch \in {"b", "B"} -> 11
      [] ch \in {"c", "C"} -> 12  [] ch \in {"d", "D"} -> 13
      [] ch \in {"e", "E"} -> 14  [] ch \in {"f", "F"} -> 15
      [] OTHER -> -1

\* the text after a leading sign, as strconv strips it
Unsigned(v) == IF v # <<>> /\ Head(v) \in {"+", "-"} THEN Tail(v) ELSE v

Negative(v) == v # <<>> /\ Head(v) = "-"

\* all characters of v are digits of the base, and there is at least one
IsDigits(v, base) ==
    /\ v # <<>>
    /\ \A k \in 1..Len(v) : DigitOf(v[k]) >= 0 /\ DigitOf(v[k]) < base

\* the number written by the first n digits of v in the base, as <<hi, lo>>
\* with lo < 2^16 and hi not reduced
RECURSIVE Magnitude(_, _, _)
Magnitude(v, n, base) ==
    IF n = 0 THEN <<0, 0>>
    ELSE With(Magnitude(v, n - 1, base), LAMBDA m :
           <<m[1] * base + ((m[2] * base + DigitOf(v[n])) \div Half),
             (m[2] * base + DigitOf(v[n])) % Half>>)

\* strconv.ParseInt(v, 16, 32) followed by uint32(addr): ok is false on a
\* syntax error and on a value outside -2^31 .. 2^31-1
ParseInt16(v) ==
    IF ~IsDigits(Unsigned(v), 16) THEN [ok |-> FALSE, v |-> Small(0)]
    ELSE With(Magnitude(Unsigned(v), Len(Unsigned(v)), 16), LAMBDA m :
           IF Negative(v)
           THEN IF LtU32(<<Half \div 2, 0>>, m) THEN [ok |-> FALSE, v |-> Small(0)]
                ELSE [ok |-> TRUE, v |-> SubU32(Small(0), m)]
           ELSE IF m[1] >= Half \div 2 THEN [ok |-> FALSE, v |-> Small(0)]
                ELSE [ok |-> TRUE, v |-> m])

\* strconv.Atoi(v) followed by byte(r)
AtoiByte(v) ==
    IF ~IsDigits(Unsigned(v), 10) THEN [ok |-> FALSE, b |-> 0]
    ELSE With(Magnitude(Unsigned(v), Len(Unsigned(v)), 10)[2] % 256, LAMBDA m :
           [ok |-> TRUE, b |-> IF Negative(v) THEN (256 - m) % 256 ELSE m])

MapPut(f, k, v) == [x \in DOMAIN f \cup {k} |-> IF x = k THEN v ELSE f[x]]

\* WriteAddr counting one byte
WriteAddrCountsOne(w, a) == [w EXCEPT !.buf = w.buf \o LeBytes(a), !.pc = w.pc + 1]

WriteAddr(w, a) == [w EXCEPT !.buf = w.buf \o LeBytes(a), !.pc = w.pc + 4]

WriteByte(w, b) == [w EXCEPT !.buf = Append(w.buf, b), !.pc = w.pc + 1]

\* Writer.WriteSymbol: the writer and the error
WriteSymbol(w, sym) ==
    CASE sym.Type = Id ->
           IF sym.Val \in DOMAIN inst
           THEN [w |-> WriteByte(w, inst[sym.Val].Op), err |-> Nil]
           ELSE [w   |-> WriteAddr([w EXCEPT !.addr = MapPut(w.addr, w.pc, sym.Val)],
                                   Small(0)),
                 err |-> Nil]
      [] sym.Type = Label ->
           IF sym.Val \in DOMAIN w.lab
           THEN [w |-> w, err |-> "redefining label"]
           ELSE [w |-> [w EXCEPT !.lab = MapPut(w.lab, sym.Val, w.pc)], err |-> Nil]
      [] sym.Type = Reg ->
           IF ~AtoiByte(sym.Val).ok
           THEN [w |-> w, err |-> "bad register"]
           ELSE [w |-> WriteByte(w, AtoiByte(sym.Val).b), err |-> Nil]
      [] sym.Type = Addr ->
           IF ~ParseInt16(sym.Val).ok
           THEN [w |-> w, err |-> "bad address"]
           ELSE [w |-> WriteAddr(w, ParseInt16(sym.Val).v), err |-> Nil]
      [] OTHER -> [w |-> w, err |-> Nil]

\* the recorded slots (offsets in addr) that cover the k-th byte of the buffer
SlotsAt(w, k) == {i \in DOMAIN w.addr : k > i /\ k <= i + 4}

\* b[i], b[i+1], b[i+2], b[i+3] = the bytes of lab[addr[i]], for the i in
\* done
PatchedAt(w, done) ==
    [k \in 1..Len(w.buf) |->
        IF SlotsAt(w, k) \cap done = {} THEN w.buf[k]
        ELSE With(CHOOSE i \in SlotsAt(w, k) \cap done : TRUE, LAMBDA i :
               LeBytes(Small(w.lab[w.addr[i]]))[k - i])]

\* the patch loop run over all of addr
Patched(w) == PatchedAt(w, DOMAIN w.addr)

\* the slots whose label lab holds
Known(w) == {i \in DOMAIN w.addr : w.addr[i] \in DOMAIN w.lab}

\* the names in addr that lab does not hold
Missing(w) == {w.addr[i] : i \in DOMAIN w.addr} \ DOMAIN w.lab

\* Writer.Write without the write of Hdr
WriteNoHdr(w) == [w EXCEPT !.buf = Patched(w), !.f = w.f \o Patched(w)]

\* Writer.Write when every label is known: patches the buffer (b aliases
\* w.buf) and writes Hdr, then the buffer, to the sink; the writes to the
\* sink are taken to succeed
Write(w) == [w EXCEPT !.buf = Patched(w), !.f = w.f \o Hdr \o Patched(w)]

----------------------------------------------------------------------------
(* Gen, from the symbols on (the loop over reader.Expect and the return)   *)

MaxErrc == 12

\* werr: the diagnostic is written while errc <= ErrThreshold
werr(g, s, err) ==
    [g EXCEPT !.e = IF g.errc <= ErrThreshold THEN Append(g.e, <<s.Line, err>>)
                    ELSE g.e,
              !.errc = g.errc + 1]

----------------------------------------------------------------------------
(* the lexer: ReadToken and Read on the bufio.Reader, and the lex loop of  *)
(* Gen.  A source is a sequence of characters, each a byte; "^A" stands    *)
(* for the control byte 01.                                                *)

\* the symbol type Read starts from, which Gen does not append
NoType == -1

syms == ("%" :> Reg) @@ ("$" :> Addr)

\* unicode.IsSpace, unicode.IsGraphic and unicode.IsLetter on the
\* characters of the sources
IsSpace(c) == c \in {" ", "\n", "\t", "\r", "\f"}

IsGraphic(c) == c # "^A" /\ (~IsSpace(c) \/ c = " ")

IsLetter(c) ==
    c \in {"a", "b", "c", "d", "e", "f", "g", "h", "i", "j", "k", "l", "m",
           "n", "o", "p", "q", "r", "s", "t", "u", "v", "w", "x", "y", "z"}

\* r.ReadByte gave out the character c
Taken(l, c) ==
    [l EXCEPT !.pos = l.pos + 1, !.lc = IF c = "\n" THEN l.lc + 1 ELSE l.lc]

\* ReadToken, tok being the bytes in b so far: at the end of the input the
\* error is returned and the bytes read are lost
RECURSIVE ReadToken(_, _)
ReadToken(l, tok) ==
    IF l.pos = Len(l.src) THEN [l |-> l, s |-> <<>>, ok |-> FALSE]
    ELSE With(l.src[l.pos + 1], LAMBDA c :
           IF IsSpace(c) THEN [l |-> Taken(l, c), s |-> tok, ok |-> TRUE]
           ELSE ReadToken(Taken(l, c), Append(tok, c)))

\* r.ReadBytes('\n'): up to and with the next newline, or to the end
RECURSIVE SkipLine(_)
SkipLine(l) ==
    IF l.pos = Len(l.src) THEN l
    ELSE IF l.src[l.pos + 1] = "\n" THEN [l EXCEPT !.pos = l.pos + 1]
    ELSE SkipLine([l EXCEPT !.pos = l.pos + 1])

EofSymbol == Sym(Eof, <<>>, 0)

\* Read after ReadToken returned t for the sigil of type t0
Sigil(t, t0) ==
    IF ~t.ok THEN [l |-> t.l, sym |-> EofSymbol, err |-> Nil]
    ELSE [l |-> t.l, sym |-> Sym(t0, t.s, t.l.lc), err |-> Nil]

\* Read after ReadToken returned t for a word that starts with a letter
Word(t) ==
    IF ~t.ok THEN [l |-> t.l, sym |-> EofSymbol, err |-> Nil]
    ELSE IF t.s[Len(t.s)] = ":"
    THEN [l |-> [t.l EXCEPT !.lc = t.l.lc + 1],
          sym |-> Sym(Label, SubSeq(t.s, 1, Len(t.s) - 1), t.l.lc),
          err |-> Nil]
    ELSE [l |-> t.l, sym |-> Sym(Id, t.s, t.l.lc), err |-> Nil]

\* Read: the lexer state, the symbol and the error
RECURSIVE Read(_)
Read(l) ==
    IF l.pos = Len(l.src) THEN [l |-> l, sym |-> EofSymbol, err |-> Nil]
    ELSE With(l.src[l.pos + 1], LAMBDA c :
           IF c = "#"
           THEN [l |-> [SkipLine(Taken(l, c)) EXCEPT !.lc = @ + 1],
                 sym |-> Sym(NoType, <<>>, 0), err |-> Nil]
           ELSE IF IsSpace(c) THEN Read(Taken(l, c))
           ELSE IF ~IsGraphic(c)
           THEN [l |-> Taken(l, c), sym |-> Sym(NoType, <<>>, 0),
                 err |-> "invalid character"]
           ELSE IF c \in DOMAIN syms THEN Sigil(ReadToken(Taken(l, c), <<>>), syms[c])
           ELSE IF IsLetter(c) THEN Word(ReadToken(l, <<>>))
           ELSE Read(Taken(l, c)))

\* a label statement: writer.WriteSymbol(s), werr on its error
GenLabel(s, r) ==
    /\ writer' = r.w
    /\ gen' = IF r.err # Nil THEN werr(gen, s, r.err)
              ELSE [gen EXCEPT !.defs = MapPut(gen.defs, s.Val, Len(writer.buf))]

\* an instruction statement: the opcode is written, the operands follow
GenOpcode(s) ==
    /\ writer' = WriteSymbol(writer, s).w
    /\ gen' = [gen EXCEPT !.at = "params",
                          !.params = inst[s.Val].Params,
                          !.cur = s.Val,
                          !.ops = <<>>,
                          !.start = Len(writer.buf),
                          !.offs = gen.offs \cup {Len(writer.buf)},
                          !.errc0 = gen.errc]

\* one turn of the loop `for { s, err := Read(b) ... }`, with x the result
\* of Read and g the state of Gen after the werr, if any
GenLexOn(x, g) ==
    IF g.errc > ErrThreshold
    THEN /\ gen' = [g EXCEPT !.at = "done", !.err = "invalid file"]
         /\ lex' = x.l
         /\ UNCHANGED <<reader, writer>>
    ELSE /\ lex' = [x.l EXCEPT !.sym = IF x.sym.Type # NoType
                                       THEN Append(lex.sym, x.sym) ELSE lex.sym]
         /\ IF x.sym.Type = Eof
            THEN /\ gen' = [g EXCEPT !.at = "stmt"]
                 /\ reader' = NewReader(Append(lex.sym, x.sym))
                 /\ writer' = NewWriter
            ELSE /\ gen' = g
                 /\ UNCHANGED <<reader, writer>>

GenLex ==
    /\ gen.at = "lex"
    /\ With(Read(lex), LAMBDA x :
         GenLexOn(x, IF x.err # Nil THEN werr(gen, x.sym, x.err) ELSE gen))
    /\ UNCHANGED <<hypoc, vmvars>>

\* one turn of the loop `for { s, err := reader.Expect(Id) ... }`, with x the
\* result of the Expect
GenStmtOn(x) ==
    /\ reader' = x.r
    /\ IF x.sym.Type = Eof
       THEN gen' = [gen EXCEPT !.at = "final"] /\ UNCHANGED writer
       ELSE IF x.err # Nil
       THEN gen' = werr(gen, x.sym, x.err) /\ UNCHANGED writer
       ELSE IF x.sym.Type # Label
       THEN IF x.sym.Val \notin DOMAIN inst
            THEN gen' = werr(gen, x.sym, "bad instruction") /\ UNCHANGED writer
            ELSE GenOpcode(x.sym)
       ELSE GenLabel(x.sym, WriteSymbol(writer, x.sym))

GenStmt ==
    /\ gen.at = "stmt"
    /\ gen.errc < MaxErrc
    /\ GenStmtOn(Expect(reader, Id))
    /\ UNCHANGED <<hypoc, lex, vmvars>>

\* one turn of `for _, t := range f.Params`, with x the result of
\* reader.Expect(t) and r that of writer.WriteSymbol(s)
GenParamOn(t, x, r) ==
    /\ reader' = x.r
    /\ writer' = IF x.err # Nil THEN writer ELSE r.w
    /\ gen' = [(IF x.err # Nil THEN werr(gen, x.sym, x.err)
                ELSE IF r.err # Nil THEN werr(gen, x.sym, r.err)
                ELSE gen)
                 EXCEPT !.params = Tail(gen.params),
                        !.ops = Append(gen.ops, x.sym),
                        !.refs = IF t = Addr /\ x.err = Nil /\ x.sym.Type = Id
                                 THEN gen.refs \cup {[at |-> Len(writer.buf),
                                                      name |-> x.sym.Val]}
                                 ELSE gen.refs]

GenParam ==
    /\ gen.at = "params"
    /\ gen.params # <<>>
    /\ GenParamOn(Head(gen.params),
                  Expect(reader, Head(gen.params)),
                  WriteSymbol(writer, Expect(reader, Head(gen.params)).sym))
    /\ UNCHANGED <<hypoc, lex, vmvars>>

\* the operands are done: `continue`
GenParamsEnd ==
    /\ gen.at = "params"
    /\ gen.params = <<>>
    /\ gen' = [gen EXCEPT !.at = "stmt"]
    /\ UNCHANGED <<reader, writer, hypoc, lex, vmvars>>

\* after the loop: the error summary, or writer.Write(), whose error is
\* printed to e and not returned.  Write ranges over the addr map in any
\* order and fails at the first name it meets that lab does not hold, with
\* the slots it met before that (done) patched in the buffer.
GenReturn ==
    /\ gen.at = "final"
    /\ IF gen.errc > ErrThreshold
       THEN /\ gen' = [gen EXCEPT !.at = "done", !.err = "errors (8 shown)",
                            !.sum = gen.errc]
            /\ UNCHANGED writer
       ELSE IF gen.errc > 0
       THEN /\ gen' = [gen EXCEPT !.at = "done", !.err = "errors",
                            !.sum = gen.errc]
            /\ UNCHANGED writer
       ELSE IF Missing(writer) # {}
       THEN /\ \E j \in Missing(writer) :
                  gen' = [gen EXCEPT !.at = "done",
                                     !.e = Append(gen.e, <<j, "no such label">>)]
            /\ \E done \in SUBSET Known(writer) :
                  writer' = [writer EXCEPT !.buf = PatchedAt(writer, done)]
       ELSE /\ gen' = [gen EXCEPT !.at = "done"]
            /\ writer' = Write(writer)
    /\ UNCHANGED <<reader, hypoc, lex, vmvars>>

\* cmd/hypoc: on an error of Gen the output is removed and the exit code is 1
HypocExit ==
    /\ gen.at = "done"
    /\ gen' = [gen EXCEPT !.at = "exited"]
    /\ hypoc' = IF gen.err # Nil THEN [exit |-> 1, out |-> "removed"]
                ELSE [exit |-> 0, out |-> "kept"]
    /\ UNCHANGED <<reader, writer, lex, vmvars>>

GenStart(at) ==
    [at |-> at, errc |-> 0, e |-> <<>>, params |-> <<>>, err |-> Nil, sum |-> 0,
     cur |-> <<>>, ops |-> <<>>, start |-> 0, errc0 |-> 0, refs |-> {}, defs |-> <<>>,
     offs |-> {}]

\* the lex loop on the bytes src, lc being n when Gen is called
LexStart(src, n) == [src |-> src, pos |-> 0, lc |-> n, lc0 |-> n, sym |-> <<>>]

\* the assembler is not running
AsmIdle ==
    /\ lex = LexStart(<<>>, 0)
    /\ reader = NewReader(<<>>)
    /\ writer = NewWriter
    /\ gen = GenStart("off")
    /\ hypoc = [exit |-> -1, out |-> "open"]

\* the VM is not running
VmIdle ==
    /\ cpu = New(Hdr).c
    /\ run = "off"
    /\ ret = Nil
    /\ steps = 0
    /\ last = [at |-> Small(0), op |-> -1]
    /\ link = "none"

\* Gen has read the symbols syms from the source without a diagnostic
Lexed(sources) ==
    /\ \E ss \in sources :
          /\ reader = NewReader(ss)
          /\ lex = [LexStart(<<>>, 0) EXCEPT !.sym = ss]
    /\ writer = NewWriter
    /\ gen = GenStart("stmt")
    /\ hypoc = [exit |-> -1, out |-> "open"]
    /\ VmIdle

----------------
(* the objects the VM is run on: the header followed by up to MaxInstr      *)
(* instructions, each encoded as the ISA lays it out                        *)

MaxInstr == 3

I0(op) == <<op>>
IR(op, r) == <<op, r>>
IRR(op, r1, r2) == <<op, r1, r2>>
IRRR(op, r1, r2, r3) == <<op, r1, r2, r3>>
IA(op, a) == <<op>> \o LeBytes(a)
IAR(op, a, r) == <<op>> \o LeBytes(a) \o <<r>>
IRAR(op, r1, a, r2) == <<op, r1>> \o LeBytes(a) \o <<r2>>
IRRA(op, r1, r2, a) == <<op, r1, r2>> \o LeBytes(a)

RECURSIVE Concat(_)
Concat(ss) == IF ss = <<>> THEN <<>> ELSE Head(ss) \o Concat(Tail(ss))

Progs(menu, n) == {Concat(p) : p \in UNION {[1..k -> menu] : k \in 1..n}}

\* jump targets: inside the code, past its end, and the last four values of
\* the 32-bit range
Targets == {Small(6), Small(64), U32(65535, 65532), U32(65535, 65535)}

FlowMenu ==
    {I0(OpNop), I0(OpExit)}
    \cup {IA(OpJ, t) : t \in Targets}
    \cup {IA(OpCall, Small(6))}
    \cup {IR(OpJr, r) : r \in {3, 8, 9}}
    \cup {IR(OpP, r) : r \in {3, 8}}
    \cup {IRRA(op, 0, 3, Small(0)) : op \in {OpBeq, OpBne, OpBgt, OpBlt}}
    \cup {IAR(OpLr, Small(7), 3), IRRR(OpAdd, 3, 3, 0), IRRR(OpSub, 0, 3, 8)}

\* programs about memory: addresses around the end of the 8192 bytes
MemMenu ==
    {I0(OpNop), I0(OpExit)}
    \cup {IAR(OpLr, Small(a), 0) : a \in {MemSize - 4, MemSize - 3, MemSize, MemSize + 1}}
    \cup {IAR(OpLr, LeU32(1, 2, 3, 4), 1)}
    \cup {IRR(op, 0, 1) : op \in {OpSt, OpLd}}
    \cup {IRR(OpSt, 2, 1), IRR(OpLd, 3, 2), IRR(OpLd, 3, 0)}
    \cup {IRR(OpSt, 9, 1), IRR(OpLd, 1, 9)}

\* main after cpu.New(buf) returned no error
Loaded(objects) ==
    /\ \E o \in objects : With(New(o), LAMBDA n : n.err = Nil /\ cpu = n.c)
    /\ run = "loop"
    /\ ret = Nil
    /\ steps = 0
    /\ last = [at |-> Small(0), op |-> -1]
    /\ link = "none"
    /\ AsmIdle

InitVM == Loaded({Hdr \o code : code \in Progs(FlowMenu, MaxInstr)})

InitMem == Loaded({Hdr \o code : code \in Progs(MemMenu, MaxInstr)})

NextVM == MainStep \/ MainExit

SpecVM == InitVM /\ [][NextVM]_vars

SpecMem == InitMem /\ [][NextVM]_vars

\* the files the loader is given: every sequence of up to MaxObject bytes
\* of the header bytes and the opcodes of nop and exit
MaxObject == 5

LoadBytes == {Hdr[k] : k \in 1..Len(Hdr)} \cup {OpNop, OpExit}

Objects == UNION {[1..n -> LoadBytes] : n \in 0..MaxObject}

\* main before cpu.New: a zero Cpu, the file read
InitLoad ==
    /\ \E o \in Objects :
          cpu = [New(<<>>).c EXCEPT !.buf = [s |-> o, i |-> Small(0)]]
    /\ run = "start"
    /\ ret = Nil
    /\ steps = 0
    /\ last = [at |-> Small(0), op |-> -1]
    /\ link = "none"
    /\ AsmIdle

NextLoad == MainLoad \/ MainStep \/ MainExit

SpecLoad == InitLoad /\ [][NextLoad]_vars

----------------------------------------------------------------------------
(* the sources the assembler is run on, as the symbols the lexer makes of  *)
(* them: up to MaxStmts statements, then the Eof symbol                     *)

MaxStmts == 3

IdSym(v) == Sym(Id, v, 0)
LabelSym(v) == Sym(Label, v, 0)
RegSym(v) == Sym(Reg, v, 0)
AddrSym(v) == Sym(Addr, v, 0)

\* the source is one line, a blank after every token: lc starts at 0 and
\* Read adds one to it after each label; at the end of the input Read makes
\* a symbol of type Eof and nothing else
Lexer(p) ==
    [i \in 1..Len(p) |->
        [p[i] EXCEPT !.Line = Cardinality({k \in 1..(i - 1) : p[k].Type = Label})]]
      \o <<Sym(Eof, <<>>, 0)>>

Sources(menu, n) == {Lexer(p) : p \in Progs(menu, n)}

\* statements about labels: definitions, references before and after them,
\* a label named like a mnemonic, a reference to a label never defined
LabelMenu ==
    { <<LabelSym(<<"a">>)>>,
      <<LabelSym(<<"e", "x", "i", "t">>)>>,
      <<IdSym(<<"n", "o", "p">>)>>,
      <<IdSym(<<"j">>), IdSym(<<"a">>)>>,
      <<IdSym(<<"j">>), IdSym(<<"e", "x", "i", "t">>)>>,
      <<IdSym(<<"c", "a", "l", "l">>), IdSym(<<"b">>)>>,
      <<IdSym(<<"b", "n", "e">>), RegSym(<<"2">>), RegSym(<<"3">>), IdSym(<<"a">>)>>,
      <<IdSym(<<"l", "r">>), AddrSym(<<"4", "1">>), RegSym(<<"0">>)>>,
      <<IdSym(<<"j", "r">>)>> }

InitAsm == Lexed(Sources(LabelMenu, MaxStmts))

\* one instruction of every mnemonic with every choice of operand symbols,
\* after the definition of label a
RegChoices == {RegSym(<<"0">>), RegSym(<<"7">>), RegSym(<<"2", "5", "6">>), RegSym(<<"x">>), IdSym(<<"a">>),
     AddrSym(<<"1", "0">>)}

AddrChoices ==
    {AddrSym(<<"0">>), AddrSym(<<"1", "0">>), AddrSym(<<"7", "f", "f", "f", "f", "f", "f", "f">>),
     AddrSym(<<"8", "0", "0", "0", "0", "0", "0", "0">>),
     AddrSym(<<"f", "f", "f", "f", "f", "f", "f", "f">>), AddrSym(<<"-", "1">>),
     IdSym(<<"a">>), IdSym(<<"n", "o", "p">>), RegSym(<<"0">>)}

Choices(t) == IF t = Reg THEN RegChoices ELSE AddrChoices

\* the operand vectors for a list of kinds
RECURSIVE Operands(_)
Operands(ps) ==
    IF ps = <<>> THEN {<<>>}
    ELSE {<<x>> \o rest : x \in Choices(Head(ps)), rest \in Operands(Tail(ps))}

OneInstruction ==
    UNION {{Lexer(<<LabelSym(<<"a">>), IdSym(m)>> \o os) :
              os \in Operands(inst[m].Params)} : m \in DOMAIN inst}

InitEnc == Lexed(OneInstruction)

\* statements with no, one and two errors each: an unknown mnemonic, a
\* register that is not a number
MaxDiag == 5

DiagMenu ==
    { <<IdSym(<<"n", "o", "p">>)>>,
      <<IdSym(<<"f", "o", "o">>)>>,
      <<IdSym(<<"p">>), RegSym(<<"x">>)>>,
      <<IdSym(<<"l", "d">>), RegSym(<<"x">>), RegSym(<<"y">>)>> }

InitDiag == Lexed(Sources(DiagMenu, MaxDiag))

\* the sources the lexer is run on: up to MaxPieces pieces, each a word, a
\* literal, a blank, a newline, a comment sign, a control byte or a digit;
\* lc is 0 when Gen is first called in a process and what the earlier calls
\* left, up to MaxPrior, after that
MaxPieces == 4

MaxPrior == 1

Pieces ==
    { <<"e", "x", "i", "t">>, <<"j">>, <<"a">>, <<"a", ":">>, <<"%", "0">>,
      <<"$", "1">>, <<" ">>, <<"\n">>, <<"#">>, <<"1">>, <<"^A">>,
      <<"^A", "^A", "^A", "^A", "^A", "^A", "^A", "^A", "^A">> }

\* Gen is called on a source made of the pieces, lc being one of priors
Called(pieces, priors) ==
    /\ \E src \in {<<>>} \cup Progs(pieces, MaxPieces), n \in priors : lex = LexStart(src, n)
    /\ reader = NewReader(<<>>)
    /\ writer = NewWriter
    /\ gen = GenStart("lex")
    /\ hypoc = [exit |-> -1, out |-> "open"]
    /\ VmIdle

InitLex == Called(Pieces, 0..MaxPrior)

\* sources of words with a blank after each, newlines and comments, and
\* the word exit with nothing after it, in a first call of Gen
InitObj ==
    Called({<<"e", "x", "i", "t", " ">>, <<"j", " ">>, <<"a", " ">>,
            <<"a", ":", " ">>, <<"b", " ">>, <<"\n">>, <<"#">>,
            <<"e", "x", "i", "t">>}, {0})

NextLex == GenLex \/ GenStmt \/ GenParam \/ GenParamsEnd \/ GenReturn \/ HypocExit

SpecLex == InitLex /\ [][NextLex]_vars

SpecObj == InitObj /\ [][NextLex]_vars

\* cmd/hypo is run on the file cmd/hypoc has written: os.ReadFile
RunObject ==
    /\ hypoc.out = "kept"
    /\ run = "off"
    /\ cpu' = [New(<<>>).c EXCEPT !.buf = [s |-> writer.f, i |-> Small(0)]]
    /\ run' = "start"
    /\ UNCHANGED <<ret, steps, last, link>>
    /\ UNCHANGED asmvars

\* one statement for every mnemonic, with operands the VM can execute
MaxRound == 2

RoundMenu ==
    { <<IdSym(<<"n", "o", "p">>)>>,
      <<IdSym(<<"l", "d">>), RegSym(<<"0">>), RegSym(<<"1">>)>>,
      <<IdSym(<<"l", "r">>), AddrSym(<<"5">>), RegSym(<<"2">>)>>,
      <<IdSym(<<"s", "t">>), RegSym(<<"0">>), RegSym(<<"1">>)>>,
      <<IdSym(<<"a", "d", "d">>), RegSym(<<"0">>), RegSym(<<"1">>), RegSym(<<"4">>)>>,
      <<IdSym(<<"s", "u", "b">>), RegSym(<<"0">>), RegSym(<<"1">>), RegSym(<<"4">>)>>,
      <<IdSym(<<"a", "d", "d", "i">>), RegSym(<<"0">>), AddrSym(<<"1">>), RegSym(<<"4">>)>>,
      <<IdSym(<<"s", "u", "b", "i">>), RegSym(<<"0">>), AddrSym(<<"1">>), RegSym(<<"4">>)>>,
      <<IdSym(<<"p">>), RegSym(<<"0">>)>>,
      <<IdSym(<<"b", "e", "q">>), RegSym(<<"0">>), RegSym(<<"2">>), AddrSym(<<"0">>)>>,
      <<IdSym(<<"b", "n", "e">>), RegSym(<<"0">>), RegSym(<<"1">>), AddrSym(<<"0">>)>>,
      <<IdSym(<<"b", "g", "t">>), RegSym(<<"0">>), RegSym(<<"1">>), AddrSym(<<"0">>)>>,
      <<IdSym(<<"b", "l", "t">>), RegSym(<<"0">>), RegSym(<<"1">>), AddrSym(<<"0">>)>>,
      <<IdSym(<<"j">>), AddrSym(<<"0">>)>>,
      <<IdSym(<<"j", "r">>), RegSym(<<"0">>)>>,
      <<IdSym(<<"c", "a", "l", "l">>), AddrSym(<<"0">>)>>,
      <<IdSym(<<"e", "x", "i", "t">>)>> }

InitRound == Lexed(Sources(RoundMenu, MaxRound))

NextAsm == GenStmt \/ GenParam \/ GenParamsEnd \/ GenReturn \/ HypocExit

SpecAsm == InitAsm /\ [][NextAsm]_vars

\* Gen runs on: a step that can be taken is taken
SpecAsmFair == InitAsm /\ [][NextAsm]_vars /\ WF_vars(NextAsm)

SpecEnc == InitEnc /\ [][NextAsm]_vars

SpecDiag == InitDiag /\ [][NextAsm]_vars

\* the assembler, then the VM on the object
NextRound == NextAsm \/ RunObject \/ MainLoad \/ MainStep \/ MainExit

SpecRound == InitRound /\ [][NextRound]_vars

----------------------------------------------------------------------------
(* Properties of the VM *)

\* a transition in which main made one Step
StepMade == run = "loop" /\ steps' = steps + 1

\* length of the code section: the object without its header
CodeLen(c) == Len(c.buf.s) - Len(Hdr)

\* the cursor stands exactly len(Hdr) bytes after pc (no wrap-around)
PcSynced(c) ==
    c.buf.i = <<c.pc[1] + ((c.pc[2] + Len(Hdr)) \div Half),
                (c.pc[2] + Len(Hdr)) % Half>>

\* the 32-bit little-endian value held in memory m at address a
Mem32(m, a) == LeU32(MemAt(m, a), MemAt(m, a + 1), MemAt(m, a + 2), MemAt(m, a + 3))

RegsValid(c) == \A r \in RegsUsed(c) : r < NumRegs

\* C1: at the start of every fetch cycle main performs, pc equals the cursor
\* position minus the header length, after New and after every instruction,
\* whatever the target of a jump.
C1_PcFollowsCursor == (run = "loop" /\ State(cpu)) => PcSynced(cpu)

\* C2: an executed instruction whose register indices are all below 8 leaves
\* flags as they were; one that uses an index of 8 or more ends as a fault,
\* flags bit 0 set, without crashing the VM.
C2_RegisterIndexChecked ==
    [][(StepMade /\ Decoded(cpu) /\ RegsUsed(cpu) # {})
         => /\ RegsValid(cpu) => cpu'.flags = cpu.flags
            /\ ~RegsValid(cpu) => (~cpu'.panicked /\ cpu'.flags % 2 = 1)]_vars

\* C3 as stated: after any Step, State() true implies pc < code_len.
C3_PcBelowCodeLen ==
    (steps > 0 /\ ~cpu.panicked /\ State(cpu))
        => LtU32(cpu.pc, Small(CodeLen(cpu)))

\* the next Step executes j, jr, call or a branch whose condition holds
Transfers(c) ==
    /\ Decoded(c)
    /\ \/ NextOp(c) \in {OpJ, OpJr, OpCall}
       \/ /\ NextOp(c) \in {OpBeq, OpBne, OpBgt, OpBlt}
          /\ RegsValid(c)
          /\ Cond(NextOp(c), c.reg[Operand(c, 1)], c.reg[Operand(c, 2)])

\* C3 amended: after a Step that returned no error and took no control
\* transfer, State() true implies pc <= code_len.
C3_PcWithinCode ==
    [][(StepMade /\ ~cpu'.panicked /\ ret' = Nil /\ State(cpu') /\ ~Transfers(cpu))
         => ~LtU32(Small(CodeLen(cpu')), cpu'.pc)]_vars

\* C3 witness: a program whose last instruction is not exit has run to its
\* end: no error, State() true, pc = code_len.
C3_RanOffTheEnd ==
    /\ steps > 0 /\ run = "loop" /\ ret = Nil /\ State(cpu)
    /\ last.op \in {OpNop, OpLr, OpAdd}
    /\ cpu.pc = Small(CodeLen(cpu))

\* C4: st stores the 32-bit value of r2 at the address in r1 and ld r1 r2 loads
\* the little-endian 32-bit value at the address in r2 into r1, for every
\* address up to 8188, with no error and no fault; so a value stored is the
\* value loaded back.
C4_StoreThenLoad ==
    [][(StepMade /\ Decoded(cpu) /\ RegsValid(cpu))
         => /\ (NextOp(cpu) = OpSt /\ ~LtU32(Small(MemSize - 4), cpu.reg[Operand(cpu, 1)]))
                 => /\ ret' = Nil /\ ~cpu'.panicked
                    /\ Mem32(cpu'.mem, cpu.reg[Operand(cpu, 1)][2])
                         = cpu.reg[Operand(cpu, 2)]
            /\ (NextOp(cpu) = OpLd /\ ~LtU32(Small(MemSize - 4), cpu.reg[Operand(cpu, 2)]))
                 => /\ ret' = Nil /\ ~cpu'.panicked
                    /\ cpu'.reg[Operand(cpu, 1)]
                         = Mem32(cpu.mem, cpu.reg[Operand(cpu, 2)][2])]_vars

\* C5: a store at address 8188 succeeds and writes its 4 bytes; a store or a
\* load at an address of 8189 or more returns illegal write / illegal read,
\* changes no memory byte and does not crash the VM.
C5_MemoryBounds ==
    [][(StepMade /\ Decoded(cpu) /\ RegsValid(cpu))
         => /\ (NextOp(cpu) = OpSt /\ cpu.reg[Operand(cpu, 1)] = Small(MemSize - 4))
                 => /\ ret' = Nil /\ ~cpu'.panicked
                    /\ Mem32(cpu'.mem, MemSize - 4) = cpu.reg[Operand(cpu, 2)]
            /\ (NextOp(cpu) = OpSt /\ LtU32(Small(MemSize - 4), cpu.reg[Operand(cpu, 1)]))
                 => ret' = "illegal write" /\ ~cpu'.panicked /\ cpu'.mem = cpu.mem
            /\ (NextOp(cpu) = OpLd /\ LtU32(Small(MemSize - 4), cpu.reg[Operand(cpu, 2)]))
                 => ret' = "illegal read" /\ ~cpu'.panicked /\ cpu'.mem = cpu.mem]_vars

\* the address operand of the j or call at the cursor
Target(c) == LeU32(Operand(c, 1), Operand(c, 2), Operand(c, 3), Operand(c, 4))

\* C6: a call at code offset k writes k+5 into register 3 and jumps to its
\* target; register 3 keeps k+5 until an instruction has it as destination;
\* a jr 3 executed meanwhile puts pc and the cursor at offset k+5.
C6_CallThenJr3Returns ==
    [][StepMade
         => /\ (Decoded(cpu) /\ NextOp(cpu) = OpCall)
                 => /\ ret' = Nil /\ ~cpu'.panicked
                    /\ cpu'.reg[3] = AddU32(Loc(cpu), Small(5))
                    /\ cpu'.pc = Target(cpu)
                    /\ cpu'.buf.i = AddU32(Target(cpu), Small(Len(Hdr)))
            /\ link' # "none" => cpu'.reg[3] = link'
            /\ (link # "none" /\ Decoded(cpu) /\ NextOp(cpu) = OpJr /\ Operand(cpu, 1) = 3)
                 => /\ ret' = Nil /\ ~cpu'.panicked
                    /\ cpu'.pc = link
                    /\ cpu'.buf.i = AddU32(link, Small(Len(Hdr)))
                    /\ PcSynced(cpu')]_vars

\* C6 witness: jr 3 has returned to the instruction after an earlier call,
\* which is the next one fetched.
C6_Returned ==
    /\ run = "loop" /\ ret = Nil /\ last.op = OpJr
    /\ link # "none" /\ cpu.pc = link /\ last.at # link
    /\ Decoded(cpu) /\ PcSynced(cpu)

----------------------------------------------------------------------------
(* properties of the assembler                                              *)

\* Gen has returned
Returned == gen.at \in {"done", "exited"}

\* Gen has returned nil after writer.Write wrote to the sink
Assembled == Returned /\ gen.err = Nil /\ writer.f # <<>>

\* the four bytes at offset i of b, <<>> when b ends before them
BytesAt(b, i) == IF i + 4 <= Len(b) THEN SubSeq(b, i + 1, i + 4) ELSE <<>>

\* the references to labels the source defines
Resolved == {ref \in gen.refs : ref.name \in DOMAIN gen.defs}

\* C7: in the assembled object every reference, in an Address position, to
\* a label defined at code offset k is the 4-byte little-endian encoding
\* of k, whatever the name of the label.
C7_ReferenceResolves ==
    Assembled =>
        \A ref \in Resolved :
            BytesAt(writer.f, Len(Hdr) + ref.at) = LeBytes(Small(gen.defs[ref.name]))

\* the size of an instruction in the ISA table: the opcode byte, a byte for
\* every Register operand, four for every Address operand
RECURSIVE Width(_)
Width(ps) ==
    IF ps = <<>> THEN 0
    ELSE (IF Head(ps) = Reg THEN 1 ELSE 4) + Width(Tail(ps))

SizeOf(mnemonic) == 1 + Width(inst[mnemonic].Params)

\* the operands of the current instruction are all read, none with a
\* diagnostic, and each is of the kind of its slot: a Register literal in a
\* Register slot, an Address literal or an identifier in an Address slot
AcceptedInKind ==
    /\ gen.at = "params"
    /\ gen.params = <<>>
    /\ gen.errc = gen.errc0
    /\ \A i \in 1..Len(gen.ops) :
          \/ gen.ops[i].Type = inst[gen.cur].Params[i]
          \/ inst[gen.cur].Params[i] = Addr /\ gen.ops[i].Type = Id

\* C8: an instruction whose operands are accepted without a diagnostic,
\* each of the kind of its slot, is emitted in as many bytes as the ISA
\* table gives for its mnemonic.
C8_EmittedSize ==
    AcceptedInKind => Len(writer.buf) - gen.start = SizeOf(gen.cur)

\* the symbol the next Expect reads
Peek == IF reader.nsym < Len(reader.sym) THEN reader.sym[reader.nsym + 1] ELSE NoSymbol

\* one to eight hexadecimal digits: the values 0..ffffffff
IsHex32(v) == Len(v) \in 1..8 /\ IsDigits(v, 16)

\* C9: an Address literal of one to eight hexadecimal digits in an Address
\* slot is assembled without a diagnostic and emitted as the little-endian
\* encoding of its value.
C9_AddressLiteral ==
    [][(/\ GenParam
        /\ Head(gen.params) = Addr
        /\ Peek.Type = Addr
        /\ IsHex32(Peek.Val))
       => (/\ gen'.errc = gen.errc
           /\ writer'.buf = writer.buf \o LeBytes(Magnitude(Peek.Val, Len(Peek.Val), 16)))]_vars

\* C10: when the source refers to a label it never defines, Gen returns an
\* error and the CLI exits with code 1 and removes the output; and when
\* Gen returns nil the sink holds the header followed by the code.
C10_UndefinedLabelFails ==
    /\ (Returned /\ gen.refs # Resolved) => gen.err # Nil
    /\ (gen.at = "exited" /\ gen.refs # Resolved) =>
           hypoc = [exit |-> 1, out |-> "removed"]
    /\ (Returned /\ gen.err = Nil) => writer.f = Hdr \o writer.buf

\* C11: at most ErrThreshold diagnostics are written in one run: with 9
\* errors there are 8 lines and the summary `9 errors (8 shown)`, with n
\* errors, 1 <= n <= 8, there are n lines and the summary `n errors`.
C11_DiagnosticsCapped ==
    (Returned /\ gen.errc > 0) =>
        /\ Len(gen.e) <= ErrThreshold
        /\ gen.errc <= ErrThreshold =>
              Len(gen.e) = gen.errc /\ gen.err = "errors" /\ gen.sum = gen.errc
        /\ gen.errc = ErrThreshold + 1 =>
              /\ Len(gen.e) = ErrThreshold
              /\ gen.err = "errors (8 shown)"
              /\ gen.sum = gen.errc

----------------------------------------------------------------------------
(* properties of the loader                                                 *)

\* the object starts with the four bytes of Hdr
HasHeader(o) == Len(o) >= Len(Hdr) /\ SubSeq(o, 1, Len(Hdr)) = Hdr

\* C12: cpu.New succeeds exactly on the objects of at least 4 bytes that
\* start with 48 59 50 00; a shorter object is refused with `could not read
\* header`, another prefix with `bad header`; on success the cursor is at
\* offset 4 and pc is 0.
C12_LoaderAcceptsHeader ==
    [][MainLoad =>
        /\ (ret' = Nil) <=> HasHeader(cpu.buf.s)
        /\ Len(cpu.buf.s) < Len(Hdr) => ret' = "could not read header"
        /\ (Len(cpu.buf.s) >= Len(Hdr) /\ ~HasHeader(cpu.buf.s)) => ret' = "bad header"
        /\ ret' = Nil => (cpu'.buf.i = Small(Len(Hdr)) /\ cpu'.pc = Small(0))]_vars

----------------------------------------------------------------------------
(* properties of the lexer                                                  *)

\* the lex loop ended at the end of the input
LexDone == gen.at # "lex" /\ gen.err # "invalid file"

\* a source of tokens, blanks and newlines only: no comment, no control
\* byte, no character the lexer skips
Plain(src) ==
    \A k \in 1..Len(src) :
        IsSpace(src[k]) \/ IsLetter(src[k]) \/ src[k] \in {"%", "$", ":", "0"}

\* the whitespace-delimited tokens of a source, by their first characters
TokenStarts(src) ==
    {k \in 1..Len(src) : ~IsSpace(src[k]) /\ (k = 1 \/ IsSpace(src[k - 1]))}

\* C13: every whitespace-delimited token yields exactly one symbol, also the
\* last one when the input ends right after it, and the end of the input
\* yields exactly one Eof symbol, after the others; the source `exit`, with
\* or without a newline after it, assembles to 48 59 50 00 10.
C13_EveryTokenASymbol ==
    /\ (LexDone /\ Plain(lex.src)) =>
          Len(lex.sym) = Cardinality(TokenStarts(lex.src)) + 1
    /\ LexDone =>
          \A k \in 1..Len(lex.sym) : (lex.sym[k].Type = Eof) <=> (k = Len(lex.sym))
    /\ (Returned /\ lex.src \in {<<"e", "x", "i", "t">>, <<"e", "x", "i", "t", "\n">>}) =>
          writer.f = Hdr \o <<OpExit>>

\* the character at k is in a comment: after a # with no newline between
InComment(src, k) ==
    \E h \in 1..k : src[h] = "#" /\ \A n \in h..(k - 1) : src[n] # "\n"

\* an empty source: no bytes, or only whitespace and comments
Blank(src) == \A k \in 1..Len(src) : IsSpace(src[k]) \/ InComment(src, k)

\* C14: what Gen writes to the sink is the 4 bytes of Hdr followed by
\* exactly the code buffer; for an empty source it is Hdr alone; when Gen
\* returns an error summary nothing is written.
C14_ObjectIsHeaderThenCode ==
    /\ writer.f # <<>> => writer.f = Hdr \o writer.buf
    /\ (Returned /\ Blank(lex.src)) => writer.f = Hdr
    /\ (Returned /\ gen.err # Nil) => writer.f = <<>>

\* an object with code and a label reference in it has been written
C14_ObjectWritten == Returned /\ Len(writer.f) > Len(Hdr) /\ writer.addr # <<>>

----------------------------------------------------------------------------
\* C15: a Step that latches a register fault (flags bit 0 set by an
\* instruction other than exit) returns the `invalid register` error, for
\* every opcode, ld and st included: the VM does not halt silently.
C15_FaultIsReturned ==
    [][(/\ StepMade
        /\ NextOp(cpu) # OpExit
        /\ cpu.flags % 2 = 0
        /\ cpu'.flags % 2 = 1
        /\ ~cpu'.panicked)
       => ret' = "invalid register"]_vars

----------------------------------------------------------------------------
\* C16: assembly terminates after finitely many symbol reads: every turn of
\* the emit loop of Gen reads a symbol of the finite stream, so that the
\* loop ends when the symbols run out, also when they run out in the middle
\* of an instruction.
C16_EveryTurnReads == [][GenStmt => reader'.nsym > reader.nsym]_vars

\* Gen returns, with an object written or with an error summary
GenReturns == <>Returned

----------------------------------------------------------------------------
\* the next symbol has the kind of the next operand slot, an identifier
\* counting as an Address
OfDeclaredKind ==
    \/ Peek.Type = Head(gen.params)
    \/ Head(gen.params) = Addr /\ Peek.Type = Id

\* C17: an operand symbol that is not of the declared kind (an identifier
\* being allowed for an Address only) is reported as `expected register` or
\* `expected immediate`, counts as an error and emits no bytes; so an
\* identifier in a Register slot does.
C17_OperandKindChecked ==
    [][(/\ GenParam
        /\ reader.nsym < Len(reader.sym)
        /\ ~OfDeclaredKind)
       => (/\ gen'.errc = gen.errc + 1
           /\ writer'.buf = writer.buf
           /\ gen'.e = Append(gen.e,
                   <<Peek.Line, IF Head(gen.params) = Reg THEN "expected register"
                                ELSE "expected immediate">>))]_vars

----------------------------------------------------------------------------
\* the bytes of the buffer that belong to a recorded patch slot
InSlot(w, k) == SlotsAt(w, k) # {}

\* every recorded slot lies inside the buffer
SlotsInside(w) == \A o \in DOMAIN w.addr : o + 4 <= Len(w.buf)

\* every recorded slot holds four zero bytes
SlotsZero(w) == \A o \in DOMAIN w.addr : BytesAt(w.buf, o) = <<0, 0, 0, 0>>

\* C18: while no diagnostic has been written, pc is the length of the code
\* buffer, every recorded patch offset o has o + 4 <= the buffer length and
\* is the offset of the four zero bytes emitted for the reference, and the
\* patching at the end changes only bytes of patch slots.
C18_PatchSlots ==
    /\ [](gen.errc = 0 =>
            /\ writer.pc = Len(writer.buf)
            /\ SlotsInside(writer)
            /\ gen.at \in {"stmt", "params", "final"} => SlotsZero(writer))
    /\ [][(GenReturn /\ gen.errc = 0) =>
            /\ Len(writer'.buf) = Len(writer.buf)
            /\ \A k \in 1..Len(writer.buf) :
                  ~InSlot(writer, k) => writer'.buf[k] = writer.buf[k]]_vars

\* an object has been written in which a slot was patched with a label
\* offset other than 0
C18_SlotPatched ==
    /\ Returned
    /\ gen.errc = 0
    /\ writer.f # <<>>
    /\ \E o \in DOMAIN writer.addr : BytesAt(writer.buf, o) # <<0, 0, 0, 0>>

----------------------------------------------------------------------------
(* the assembler's encoding against the VM's decoding                       *)

\* the operand kinds inst gives for an opcode
ParamsOf(op) == inst[CHOOSE mn \in DOMAIN inst : inst[mn].Op = op].Params

\* the positions, after byte at, of the Register bytes the assembler emits
\* for the operand kinds ps
RECURSIVE RegBytes(_, _)
RegBytes(ps, at) ==
    IF ps = <<>> THEN {}
    ELSE IF Head(ps) = Reg THEN {at + 1} \cup RegBytes(Tail(ps), at + 1)
    ELSE RegBytes(Tail(ps), at + 4)

\* the assembler's offset of the instruction after the one at offset o
NextOff(o) ==
    CHOOSE x \in {y \in gen.offs \cup {Len(writer.buf)} : y > o} :
        \A y \in gen.offs \cup {Len(writer.buf)} : y > o => x <= y

\* the VM, run on the assembled object, makes a Step at an offset where the
\* assembler put an instruction
StepAtInstruction ==
    /\ StepMade
    /\ hypoc.out = "kept"
    /\ cpu.pc[1] = 0
    /\ cpu.pc[2] \in gen.offs
    /\ Loc(cpu) = cpu.pc

----------------------------------------------------------------------------
(* line annotation                                                          *)

\* the first character of the k-th token of the source
TokenStart(src, k) ==
    CHOOSE p \in TokenStarts(src) :
        Cardinality({q \in TokenStarts(src) : q < p}) = k - 1

\* the physical line, counted from 1, of the character at p
PhysLine(src, p) == 1 + Cardinality({q \in 1..(p - 1) : src[q] = "\n"})

\* the lex loop is done and made one symbol of every token of a source of
\* tokens, blanks and newlines, none of them a label
TokensLexed ==
    /\ LexDone
    /\ Plain(lex.src)
    /\ Len(lex.sym) = Cardinality(TokenStarts(lex.src)) + 1
    /\ \A k \in 1..Len(lex.sym) : lex.sym[k].Type # Label

\* C20: the line counter is 1-based in every call of Gen, whatever earlier
\* calls left in it, so a symbol of the first line has Line 1; and two
\* symbols of one physical line have the same Line, whether a blank or the
\* newline ends the token.
C20_LineConsistent ==
    TokensLexed =>
        \A k \in 1..(Len(lex.sym) - 1) :
            /\ PhysLine(lex.src, TokenStart(lex.src, k)) = 1 => lex.sym[k].Line = 1
            /\ \A j \in 1..(Len(lex.sym) - 1) :
                  PhysLine(lex.src, TokenStart(lex.src, j))
                    = PhysLine(lex.src, TokenStart(lex.src, k))
                  => lex.sym[j].Line = lex.sym[k].Line

====
